---- MODULE Spec2Model ----
(***************************************************************************)
(* NonlinearController (Flying_Car_nano/FCND-Controls/controller.py).      *)
(*                                                                         *)
(* Numbers are extended rationals <<n, d>>: d > 0 is the finite value n/d  *)
(* in lowest terms, and d = 0 is a non-finite value as numpy produces it   *)
(* from a division by zero: <<1, 0>> is inf, <<-1, 0>> is -inf, <<0, 0>>   *)
(* is nan.  Rounding is not modelled.  Python sequences are indexed from   *)
(* 0 through At, negative indices counting from the end.                   *)
(***************************************************************************)
EXTENDS Integers, Sequences, FiniteSets, TLC

VARIABLES self, position_trajectory, yaw_trajectory, time_trajectory, call, ret

vars == <<self, position_trajectory, yaw_trajectory, time_trajectory, call, ret>>

(* ------------------------------ bounds -------------------------------- *)

MaxLen == 3

MaxTime == 2

(* --------------------------- float arithmetic -------------------------- *)

AbsInt(n) == IF n < 0 THEN -n ELSE n

SgnInt(n) == IF n < 0 THEN -1 ELSE IF n > 0 THEN 1 ELSE 0

RECURSIVE GCD(_, _)
GCD(a, b) == IF b = 0 THEN a ELSE GCD(b, a % b)

Norm(n, d) ==
    IF d = 0 THEN <<SgnInt(n), 0>>
    ELSE LET s == IF d < 0 THEN -1 ELSE 1
             k == GCD(AbsInt(n), AbsInt(d))
         IN  <<(s * n) \div k, (s * d) \div k>>

R(n) == <<n, 1>>

Q(n, d) == Norm(n, d)

NaN == <<0, 0>>

IsFinite(a) == a[2] # 0

Neg(a) == <<-a[1], a[2]>>

Add(a, b) ==
    IF IsFinite(a) /\ IsFinite(b)
    THEN LET k == GCD(a[2], b[2])
         IN  Norm(a[1] * (b[2] \div k) + b[1] * (a[2] \div k), a[2] * (b[2] \div k))
    ELSE IF a = NaN \/ b = NaN THEN NaN
    ELSE IF ~IsFinite(a) /\ ~IsFinite(b) THEN (IF a = b THEN a ELSE NaN)
    ELSE IF IsFinite(a) THEN b ELSE a

Sub(a, b) == Add(a, Neg(b))

Mul(a, b) ==
    LET k1 == IF GCD(AbsInt(a[1]), b[2]) = 0 THEN 1 ELSE GCD(AbsInt(a[1]), b[2])
        k2 == IF GCD(AbsInt(b[1]), a[2]) = 0 THEN 1 ELSE GCD(AbsInt(b[1]), a[2])
    IN  Norm((a[1] \div k1) * (b[1] \div k2), (a[2] \div k2) * (b[2] \div k1))

Inv(a) == Norm(a[2], a[1])

Div(a, b) == Mul(a, Inv(b))

Less(a, b) == IsFinite(a) /\ IsFinite(b) /\ a[1] * b[2] < b[1] * a[2]

Abs(a) == <<AbsInt(a[1]), a[2]>>

(* elementwise numpy array operations *)
VSub(u, v) == [i \in DOMAIN u |-> Sub(u[i], v[i])]

VAdd(u, v) == [i \in DOMAIN u |-> Add(u[i], v[i])]

VScale(u, a) == [i \in DOMAIN u |-> Mul(u[i], a)]

VDiv(u, a) == [i \in DOMAIN u |-> Div(u[i], a)]

(* Python indexing: 0-based, a negative index counts from the end *)
At(seq, i) == IF i < 0 THEN seq[Len(seq) + i + 1] ELSE seq[i + 1]

(* ------------------------------ __init__ ------------------------------- *)

NonlinearController(z_k_p, z_k_d, x_k_p, x_k_d, y_k_p, y_k_d, k_p_roll, k_p_pitch, k_p_yaw, k_p_p, k_p_q, k_p_r) ==
    [z_k_p |-> z_k_p, z_k_d |-> z_k_d, x_k_p |-> x_k_p, x_k_d |-> x_k_d,
     y_k_p |-> y_k_p, y_k_d |-> y_k_d, k_p_roll |-> k_p_roll,
     k_p_pitch |-> k_p_pitch, k_p_yaw |-> k_p_yaw, k_p_p |-> k_p_p,
     k_p_q |-> k_p_q, k_p_r |-> k_p_r, g |-> Q(981, 100)]

DefaultController ==
    NonlinearController(R(9), Q(48, 10), R(1), R(1), R(1), R(1),
                        Q(1, 2), Q(1, 2), R(8), Q(1, 10), Q(2, 10), Q(1, 10))

(* results of a call *)
Returned(v) == [status |-> "ok", value |-> v]

Raised(e) == [status |-> "raise", value |-> e]

NoCall == [status |-> "none", value |-> <<>>]

(* -------------------------- trajectory_control ------------------------- *)

(* np.abs(np.array(time_trajectory) - current_time) *)
distances(time_traj, current_time) ==
    [i \in 1..Len(time_traj) |-> Abs(Sub(time_traj[i], current_time))]

(* np.argmin: the first (0-based) index of a minimal element *)
argmin(a) ==
    CHOOSE i \in 0..(Len(a) - 1) :
        /\ \A j \in 0..(Len(a) - 1) : ~Less(At(a, j), At(a, i))
        /\ \A j \in 0..(i - 1) : Less(At(a, i), At(a, j))

position_cmd(position0, position1, time0, time1, current_time) ==
    VAdd(VDiv(VScale(VSub(position1, position0), Sub(current_time, time0)),
              Sub(time1, time0)),
         position0)

(* the slip of leaving out the division by the segment's duration *)
velocity_cmd_undivided(position0, position1, time0, time1) ==
    VSub(position1, position0)

velocity_cmd(position0, position1, time0, time1) ==
    VDiv(VSub(position1, position0), Sub(time1, time0))

trajectory_control(pos_traj, yaw_traj, time_traj, current_time) ==
    IF Len(time_traj) = 0 THEN Raised("ValueError")
    ELSE
    LET ind_min == argmin(distances(time_traj, current_time))
        time_ref == At(time_traj, ind_min)
        before == Less(current_time, time_ref)
        last == ind_min >= Len(pos_traj) - 1
        position0 == IF before THEN At(pos_traj, ind_min - 1)
                     ELSE At(pos_traj, ind_min)
        position1 == IF before \/ last THEN At(pos_traj, ind_min)
                     ELSE At(pos_traj, ind_min + 1)
        time0 == IF before THEN At(time_traj, ind_min - 1)
                 ELSE IF last THEN R(0) ELSE At(time_traj, ind_min)
        time1 == IF before THEN At(time_traj, ind_min)
                 ELSE IF last THEN R(1) ELSE At(time_traj, ind_min + 1)
        yaw_cmd == IF before THEN At(yaw_traj, ind_min - 1)
                   ELSE At(yaw_traj, ind_min)
    IN  Returned(<<position_cmd(position0, position1, time0, time1, current_time),
                   velocity_cmd(position0, position1, time0, time1),
                   yaw_cmd>>)

(* -------------------------------- inputs ------------------------------- *)

(* waypoints a planner hands over: a position with the yaw to hold there *)
Waypoints ==
    {[position |-> <<R(0), R(0), R(0)>>, yaw |-> R(0)],
     [position |-> <<R(10), R(0), R(0)>>, yaw |-> R(1)],
     [position |-> <<R(1), R(-2), R(4)>>, yaw |-> R(2)]}

(* waypoint times 0, 5, 10, ...; the clock is read every 2.5 s, from before
   the first possible waypoint until after the last *)
TimeVals == {R(5 * n) : n \in 0..MaxTime}

QueryTimes == {Q(5 * n, 2) : n \in (-1)..(2 * MaxTime + 1)}

SeqsUpTo(S, n) == UNION {[1..k -> S] : k \in 0..n}

NonDecreasing(time_traj) ==
    \A i \in 1..(Len(time_traj) - 1) : ~Less(time_traj[i + 1], time_traj[i])

StrictlyIncreasing(time_traj) ==
    \A i \in 1..(Len(time_traj) - 1) : Less(time_traj[i], time_traj[i + 1])

(* ------------------- the trajectory sampler on its own ----------------- *)

TrajInit ==
    /\ self = DefaultController
    /\ time_trajectory \in {s \in SeqsUpTo(TimeVals, MaxLen) : NonDecreasing(s)}
    /\ \E wp \in [1..Len(time_trajectory) -> Waypoints] :
          /\ position_trajectory = [i \in 1..Len(time_trajectory) |-> wp[i].position]
          /\ yaw_trajectory = [i \in 1..Len(time_trajectory) |-> wp[i].yaw]
    /\ call = [stage |-> "none", args |-> <<>>]
    /\ ret = NoCall

CallTrajectoryControl ==
    \E current_time \in QueryTimes :
        /\ call' = [stage |-> "trajectory_control", args |-> <<current_time>>]
        /\ ret' = trajectory_control(position_trajectory, yaw_trajectory,
                                     time_trajectory, current_time)
        /\ UNCHANGED <<self, position_trajectory, yaw_trajectory, time_trajectory>>

TrajNext == CallTrajectoryControl

TrajSpec == TrajInit /\ [][TrajNext]_vars

(* --------------------------- rotation matrix --------------------------- *)

(* np.cos and np.sin on the angles the model uses, whose cosine and sine
   are rational *)
cos(a) ==
    CASE a = "0" -> R(1)
      [] a = "pi/2" -> R(0)
      [] a = "atan(3/4)" -> Q(4, 5)
      [] a = "-atan(3/4)" -> Q(4, 5)

sin(a) ==
    CASE a = "0" -> R(0)
      [] a = "pi/2" -> R(1)
      [] a = "atan(3/4)" -> Q(3, 5)
      [] a = "-atan(3/4)" -> Q(-3, 5)

(* m[i][j] with the source's 0-based indices *)
Idx(m, i, j) == m[i + 1][j + 1]

(* np.dot of two 3x3 matrices *)
dot(A, B) ==
    [i \in 1..3 |-> [j \in 1..3 |->
        Add(Add(Mul(A[i][1], B[1][j]), Mul(A[i][2], B[2][j])), Mul(A[i][3], B[3][j]))]]

Rx_phi(attitude) ==
    << <<R(1), R(0), R(0)>>,
       <<R(0), cos(At(attitude, 0)), Neg(sin(At(attitude, 0)))>>,
       <<R(0), sin(At(attitude, 0)), cos(At(attitude, 0))>> >>

Ry_theta(attitude) ==
    << <<cos(At(attitude, 1)), R(0), sin(At(attitude, 1))>>,
       <<R(0), R(1), R(0)>>,
       <<Neg(sin(At(attitude, 1))), R(0), cos(At(attitude, 1))>> >>

Rz_psi(attitude) ==
    << <<cos(At(attitude, 2)), Neg(sin(At(attitude, 2))), R(0)>>,
       <<sin(At(attitude, 2)), cos(At(attitude, 2)), R(0)>>,
       <<R(0), R(0), R(1)>> >>

(* the slip of multiplying the three rotations in the opposite order *)
rotation_matrix_reversed(attitude) ==
    dot(dot(Rx_phi(attitude), Ry_theta(attitude)), Rz_psi(attitude))

rotation_matrix(attitude) ==
    dot(dot(Rz_psi(attitude), Ry_theta(attitude)), Rx_phi(attitude))

(* ----------------------- lateral_position_control ---------------------- *)

(* the slip of using the north gains on the east axis *)
lateral_position_control_north_gains(this, local_position_cmd, local_velocity_cmd, local_position, local_velocity, acceleration_ff) ==
    LET b_x_c == Add(Add(Mul(this.x_k_p, Sub(At(local_position_cmd, 0), At(local_position, 0))),
                         Mul(this.x_k_d, Sub(At(local_velocity_cmd, 0), At(local_velocity, 0)))),
                     At(acceleration_ff, 0))
        b_y_c == Add(Add(Mul(this.x_k_p, Sub(At(local_position_cmd, 1), At(local_position, 1))),
                         Mul(this.x_k_d, Sub(At(local_velocity_cmd, 1), At(local_velocity, 1)))),
                     At(acceleration_ff, 1))
    IN  Returned(<<b_x_c, b_y_c>>)

lateral_position_control(this, local_position_cmd, local_velocity_cmd, local_position, local_velocity, acceleration_ff) ==
    LET b_x_c == Add(Add(Mul(this.x_k_p, Sub(At(local_position_cmd, 0), At(local_position, 0))),
                         Mul(this.x_k_d, Sub(At(local_velocity_cmd, 0), At(local_velocity, 0)))),
                     At(acceleration_ff, 0))
        b_y_c == Add(Add(Mul(this.y_k_p, Sub(At(local_position_cmd, 1), At(local_position, 1))),
                         Mul(this.y_k_d, Sub(At(local_velocity_cmd, 1), At(local_velocity, 1)))),
                     At(acceleration_ff, 1))
    IN  Returned(<<b_x_c, b_y_c>>)

(* --------------------------- altitude_control -------------------------- *)

(* the slip of adding gravity instead of subtracting it *)
altitude_control_plus_g(this, altitude_cmd, vertical_velocity_cmd, altitude, vertical_velocity, attitude, acceleration_ff) ==
    LET u1_bar == Add(Add(Mul(this.z_k_p, Sub(altitude_cmd, altitude)),
                          Mul(this.z_k_d, Sub(vertical_velocity_cmd, vertical_velocity))),
                      acceleration_ff)
        c == Div(Add(u1_bar, this.g), Idx(rotation_matrix(attitude), 2, 2))
    IN  Returned(c)

altitude_control(this, altitude_cmd, vertical_velocity_cmd, altitude, vertical_velocity, attitude, acceleration_ff) ==
    LET u1_bar == Add(Add(Mul(this.z_k_p, Sub(altitude_cmd, altitude)),
                          Mul(this.z_k_d, Sub(vertical_velocity_cmd, vertical_velocity))),
                      acceleration_ff)
        c == Div(Sub(u1_bar, this.g), Idx(rotation_matrix(attitude), 2, 2))
    IN  Returned(c)

(* ------------------------- roll_pitch_controller ----------------------- *)

roll_pitch_controller(this, acceleration_cmd, attitude, thrust_cmd) ==
    LET rotation_mat == rotation_matrix(attitude)
        b_dot_x_c == Mul(this.k_p_roll,
                         Sub(Div(At(acceleration_cmd, 0), thrust_cmd), Idx(rotation_mat, 0, 2)))
        b_dot_y_c == Mul(this.k_p_pitch,
                         Sub(Div(At(acceleration_cmd, 1), thrust_cmd), Idx(rotation_mat, 1, 2)))
        A == << <<Idx(rotation_mat, 1, 0), Neg(Idx(rotation_mat, 0, 0))>>,
                <<Idx(rotation_mat, 1, 1), Neg(Idx(rotation_mat, 0, 1))>> >>
        s == Div(R(1), Idx(rotation_mat, 2, 2))
        B == [i \in 1..2 |-> [j \in 1..2 |-> Mul(s, A[i][j])]]
        p_c == Add(Mul(B[1][1], b_dot_x_c), Mul(B[1][2], b_dot_y_c))
        q_c == Add(Mul(B[2][1], b_dot_x_c), Mul(B[2][2], b_dot_y_c))
    IN  Returned(<<p_c, q_c>>)

(* --------------------------- body_rate_control ------------------------- *)

(* the slip of feeding the roll-rate error into the pitch moment *)
body_rate_control_coupled(this, body_rate_cmd, body_rate) ==
    LET u_bar_p == Mul(this.k_p_p, Sub(At(body_rate_cmd, 0), At(body_rate, 0)))
        u_bar_q == Mul(this.k_p_q, Sub(At(body_rate_cmd, 0), At(body_rate, 0)))
        u_bar_r == Mul(this.k_p_r, Sub(At(body_rate_cmd, 2), At(body_rate, 2)))
    IN  Returned(<<u_bar_p, u_bar_q, u_bar_r>>)

body_rate_control(this, body_rate_cmd, body_rate) ==
    LET u_bar_p == Mul(this.k_p_p, Sub(At(body_rate_cmd, 0), At(body_rate, 0)))
        u_bar_q == Mul(this.k_p_q, Sub(At(body_rate_cmd, 1), At(body_rate, 1)))
        u_bar_r == Mul(this.k_p_r, Sub(At(body_rate_cmd, 2), At(body_rate, 2)))
    IN  Returned(<<u_bar_p, u_bar_q, u_bar_r>>)

(* ------------------------------ yaw_control ---------------------------- *)

yaw_control(this, yaw_cmd, yaw) == Returned(R(0))

(* ---------------------------- the controller --------------------------- *)

Controllers ==
    {DefaultController,
     NonlinearController(R(2), R(3), R(5), Q(1, 2), R(-1), R(4),
                         R(3), Q(-1, 2), R(1), R(2), Q(1, 3), R(-5)),
     NonlinearController(R(0), R(0), R(0), R(0), R(0), R(0),
                         R(0), R(0), R(0), R(0), R(0), R(0))}

Vec3s == {<<R(0), R(0), R(0)>>, <<R(1), R(-2), Q(1, 2)>>, <<R(3), R(1), R(-1)>>}

(* (roll, pitch, yaw) *)
Attitudes ==
    {<<"0", "0", "0">>, <<"0", "0", "pi/2">>, <<"0", "0", "atan(3/4)">>,
     <<"atan(3/4)", "-atan(3/4)", "pi/2">>, <<"-atan(3/4)", "atan(3/4)", "atan(3/4)">>,
     <<"pi/2", "0", "0">>, <<"0", "pi/2", "-atan(3/4)">>}

Init ==
    /\ self \in Controllers
    /\ time_trajectory \in {<<>>, <<R(0), R(10)>>}
    /\ position_trajectory =
          IF time_trajectory = <<>> THEN <<>>
          ELSE << <<R(0), R(0), R(0)>>, <<R(10), R(0), R(0)>> >>
    /\ yaw_trajectory = IF time_trajectory = <<>> THEN <<>> ELSE <<R(0), R(1)>>
    /\ call = [stage |-> "none", args |-> <<>>]
    /\ ret = NoCall

CallLateralPositionControl ==
    \E local_position_cmd \in {<<R(0), R(0)>>, <<R(1), R(-2)>>},
       local_velocity_cmd \in {<<Q(1, 2), R(3)>>},
       local_position \in {<<R(0), R(0)>>, <<R(1), R(-2)>>},
       local_velocity \in {<<R(0), R(0)>>, <<Q(1, 2), R(3)>>},
       ff \in {<<>>, <<R(0), R(0)>>, <<R(3), R(-1)>>} :
        /\ call' = [stage |-> "lateral_position_control",
                    args |-> <<local_position_cmd, local_velocity_cmd,
                               local_position, local_velocity, ff>>]
        /\ ret' = lateral_position_control(self, local_position_cmd, local_velocity_cmd,
                        local_position, local_velocity,
                        IF ff = <<>> THEN <<R(0), R(0)>> ELSE ff)
        /\ UNCHANGED <<self, position_trajectory, yaw_trajectory, time_trajectory>>

CallAltitudeControl ==
    \E altitude_cmd \in {R(1), Q(-3, 2)}, altitude \in {R(1)},
       vertical_velocity_cmd \in {R(0)}, vertical_velocity \in {R(0), R(2)},
       attitude \in Attitudes, ff \in {<<>>, <<Q(1, 2)>>} :
        /\ call' = [stage |-> "altitude_control",
                    args |-> <<altitude_cmd, vertical_velocity_cmd, altitude,
                               vertical_velocity, attitude, ff>>]
        /\ ret' = altitude_control(self, altitude_cmd, vertical_velocity_cmd, altitude,
                        vertical_velocity, attitude,
                        IF ff = <<>> THEN R(0) ELSE ff[1])
        /\ UNCHANGED <<self, position_trajectory, yaw_trajectory, time_trajectory>>

CallRollPitchController ==
    \E acceleration_cmd \in {<<R(0), R(0)>>, <<R(1), R(-2)>>}, attitude \in Attitudes,
       thrust_cmd \in {R(0), R(2), Q(-1, 2)} :
        /\ call' = [stage |-> "roll_pitch_controller",
                    args |-> <<acceleration_cmd, attitude, thrust_cmd>>]
        /\ ret' = roll_pitch_controller(self, acceleration_cmd, attitude, thrust_cmd)
        /\ UNCHANGED <<self, position_trajectory, yaw_trajectory, time_trajectory>>

CallBodyRateControl ==
    \E body_rate_cmd \in Vec3s, body_rate \in Vec3s :
        /\ call' = [stage |-> "body_rate_control", args |-> <<body_rate_cmd, body_rate>>]
        /\ ret' = body_rate_control(self, body_rate_cmd, body_rate)
        /\ UNCHANGED <<self, position_trajectory, yaw_trajectory, time_trajectory>>

(* a yaw loop that keeps state: it stores the last commanded yaw in a gain *)
CallYawControl_stateful ==
    \E yaw_cmd \in {R(0), R(1)}, yaw \in {R(1)} :
        /\ call' = [stage |-> "yaw_control", args |-> <<yaw_cmd, yaw>>]
        /\ ret' = yaw_control(self, yaw_cmd, yaw)
        /\ self' = [self EXCEPT !.k_p_yaw = yaw_cmd]
        /\ UNCHANGED <<position_trajectory, yaw_trajectory, time_trajectory>>

CallYawControl ==
    \E yaw_cmd \in {R(0), R(1)}, yaw \in {R(1)} :
        /\ call' = [stage |-> "yaw_control", args |-> <<yaw_cmd, yaw>>]
        /\ ret' = yaw_control(self, yaw_cmd, yaw)
        /\ UNCHANGED <<self, position_trajectory, yaw_trajectory, time_trajectory>>

Next ==
    \/ CallTrajectoryControl
    \/ CallLateralPositionControl
    \/ CallAltitudeControl
    \/ CallRollPitchController
    \/ CallBodyRateControl
    \/ CallYawControl

Spec == Init /\ [][Next]_vars

(* ------------------- claims about trajectory_control ------------------- *)

IsTrajectoryCall == call.stage = "trajectory_control"

N == Len(time_trajectory)

Zero3 == <<R(0), R(0), R(0)>>

LessEq(a, b) == a = b \/ Less(a, b)

(* position[k] + (t - time[k]) / (time[k+1] - time[k]) * (position[k+1] - position[k]) *)
Lerp(k, t) ==
    [c \in 1..3 |->
        Add(At(position_trajectory, k)[c],
            Mul(Div(Sub(t, At(time_trajectory, k)),
                    Sub(At(time_trajectory, k + 1), At(time_trajectory, k))),
                Sub(At(position_trajectory, k + 1)[c], At(position_trajectory, k)[c])))]

(* (position[k+1] - position[k]) / (time[k+1] - time[k]) *)
SegmentVelocity(k) ==
    [c \in 1..3 |->
        Div(Sub(At(position_trajectory, k + 1)[c], At(position_trajectory, k)[c]),
            Sub(At(time_trajectory, k + 1), At(time_trajectory, k)))]

Brackets(k, t) ==
    /\ LessEq(At(time_trajectory, k), t)
    /\ LessEq(t, At(time_trajectory, k + 1))

InterpolatedOn(k, t) ==
    /\ ret.status = "ok"
    /\ ret.value[1] = Lerp(k, t)
    /\ ret.value[2] = SegmentVelocity(k)

ExampleCall ==
    /\ IsTrajectoryCall
    /\ time_trajectory = <<R(0), R(10)>>
    /\ position_trajectory = <<Zero3, <<R(10), R(0), R(0)>> >>
    /\ call.args[1] = R(5)

(* C1, as stated: with at least two samples, strictly increasing times and
   time[0] <= t <= time[N-1], the call returns the linear interpolation and
   the segment velocity of a segment [k, k+1] that brackets t. *)
C1_AsStated ==
    (/\ IsTrajectoryCall
     /\ N >= 2
     /\ StrictlyIncreasing(time_trajectory)
     /\ LessEq(At(time_trajectory, 0), call.args[1])
     /\ LessEq(call.args[1], At(time_trajectory, N - 1)))
    => \E k \in 0..(N - 2) : Brackets(k, call.args[1]) /\ InterpolatedOn(k, call.args[1])

(* C1, amended: with at least two samples, strictly increasing times and
   time[0] <= t < time[N-1], the call returns the linear interpolation and
   the segment velocity of a segment [k, k+1] that brackets t; at
   t = time[N-1] it returns position[N-1] and the zero velocity.  Waypoints
   t=0 (0,0,0) and t=10 (10,0,0) queried at t=5 give (5,0,0) and (1,0,0). *)
C1_Interpolation ==
    /\ (/\ IsTrajectoryCall
        /\ N >= 2
        /\ StrictlyIncreasing(time_trajectory)
        /\ LessEq(At(time_trajectory, 0), call.args[1])
        /\ Less(call.args[1], At(time_trajectory, N - 1)))
       => \E k \in 0..(N - 2) :
             Brackets(k, call.args[1]) /\ InterpolatedOn(k, call.args[1])
    /\ (/\ IsTrajectoryCall
        /\ N >= 2
        /\ StrictlyIncreasing(time_trajectory)
        /\ call.args[1] = At(time_trajectory, N - 1))
       => /\ ret.status = "ok"
          /\ ret.value[1] = At(position_trajectory, N - 1)
          /\ ret.value[2] = Zero3
    /\ ExampleCall
       => /\ ret.status = "ok"
          /\ ret.value[1] = <<R(5), R(0), R(0)>>
          /\ ret.value[2] = <<R(1), R(0), R(0)>>

(* the example of C1, where t = 5 is equidistant from both samples *)
C1_Witness ==
    /\ ExampleCall
    /\ distances(time_trajectory, call.args[1]) = <<R(5), R(5)>>
    /\ ret.status = "ok"
    /\ ret.value[1] = <<R(5), R(0), R(0)>>

(* C2: with at least one sample, non-decreasing times and t >= time[N-1],
   the call returns the final waypoint's position, the zero velocity and the
   final waypoint's yaw, without a division by zero. *)
C2_FinalWaypoint ==
    (/\ IsTrajectoryCall
     /\ N >= 1
     /\ NonDecreasing(time_trajectory)
     /\ LessEq(At(time_trajectory, N - 1), call.args[1]))
    => /\ ret.status = "ok"
       /\ ret.value = <<At(position_trajectory, N - 1), Zero3,
                        At(yaw_trajectory, N - 1)>>

(* C3: with at least one sample and non-decreasing times, a call at exactly
   time[j] returns position[j], yaw[j], and a velocity that is zero or the
   velocity of the segment starting at j. *)
C3_ExactAtWaypoint ==
    (IsTrajectoryCall /\ N >= 1 /\ NonDecreasing(time_trajectory))
    => \A j \in 0..(N - 1) :
          call.args[1] = At(time_trajectory, j)
          => /\ ret.status = "ok"
             /\ ret.value[1] = At(position_trajectory, j)
             /\ ret.value[3] = At(yaw_trajectory, j)
             /\ \/ ret.value[2] = Zero3
                \/ j < N - 1 /\ ret.value[2] = SegmentVelocity(j)

(* C4: with at least one sample and t before the first sample's time, the
   call clamps to the first sample: it returns position[0] and yaw[0]. *)
C4_UnderrunClamps ==
    (/\ IsTrajectoryCall
     /\ N >= 1
     /\ Less(call.args[1], At(time_trajectory, 0)))
    => /\ ret.status = "ok"
       /\ ret.value[1] = At(position_trajectory, 0)
       /\ ret.value[3] = At(yaw_trajectory, 0)

(* ------------------------ claims about the stages ---------------------- *)

Arg(i) == call.args[i]

(* cos(roll) * cos(pitch), the entry R[2][2] of Rz(yaw) * Ry(pitch) * Rx(roll) *)
R22(attitude) == Mul(cos(attitude[1]), cos(attitude[2]))

Level(attitude) == attitude[1] = "0" /\ attitude[2] = "0"

(* C5: an error input (an empty trajectory, thrust_cmd = 0, an attitude with
   R[2][2] = 0) makes the call return an explicit fault result, neither
   raising nor returning a non-finite command. *)
C5_ErrorsAreFaultResults ==
    /\ (IsTrajectoryCall /\ N = 0) => ret.status = "fault"
    /\ (call.stage = "roll_pitch_controller" /\ Arg(3) = R(0)) => ret.status = "fault"
    /\ (call.stage = "roll_pitch_controller" /\ R22(Arg(2)) = R(0)) => ret.status = "fault"
    /\ (call.stage = "altitude_control" /\ R22(Arg(5)) = R(0)) => ret.status = "fault"

(* C6: no call changes a gain, g or a trajectory list, and repeating a call
   with the same arguments returns the same output. *)
C6_Stateless ==
    [][/\ self' = self
       /\ self.g = Q(981, 100)
       /\ position_trajectory' = position_trajectory
       /\ yaw_trajectory' = yaw_trajectory
       /\ time_trajectory' = time_trajectory
       /\ (call' = call => ret' = ret)]_vars

C6_Witness ==
    /\ call.stage = "yaw_control"
    /\ Arg(1) # Arg(2)
    /\ self \in Controllers \ {DefaultController}
    /\ time_trajectory # <<>>
    /\ ret.status = "ok"

(* C7: altitude_control returns (u1 - g) / R[2][2] with
   u1 = z_k_p*(altitude_cmd - altitude)
        + z_k_d*(vertical_velocity_cmd - vertical_velocity) + acceleration_ff
   and g = 9.81; at level attitude with zero errors and zero feed-forward
   the thrust is -9.81 whatever the gains and the yaw. *)
C7_AltitudeThrust ==
    call.stage = "altitude_control" =>
        LET ff == IF Arg(6) = <<>> THEN R(0) ELSE Arg(6)[1]
            u1 == Add(Add(Mul(self.z_k_p, Sub(Arg(1), Arg(3))),
                          Mul(self.z_k_d, Sub(Arg(2), Arg(4)))), ff)
        IN  /\ ret.status = "ok"
            /\ R22(Arg(5)) # R(0) => ret.value = Div(Sub(u1, Q(981, 100)), R22(Arg(5)))
            /\ (Level(Arg(5)) /\ Arg(1) = Arg(3) /\ Arg(2) = Arg(4) /\ ff = R(0))
               => ret.value = Q(-981, 100)

C7_Witness ==
    /\ call.stage = "altitude_control"
    /\ Level(Arg(5)) /\ Arg(5)[3] = "atan(3/4)"
    /\ Arg(1) = Arg(3) /\ Arg(2) = Arg(4) /\ Arg(6) = <<>>
    /\ self.z_k_p = R(2)
    /\ ret.value = Q(-981, 100)

(* the entries of R = Rz(yaw) * Ry(pitch) * Rx(roll) that the attitude loop uses *)
REntry(attitude, i, j) ==
    LET cr == cos(attitude[1])  sr == sin(attitude[1])
        cp == cos(attitude[2])  sp == sin(attitude[2])
        cy == cos(attitude[3])  sy == sin(attitude[3])
    IN  CASE <<i, j>> = <<0, 0>> -> Mul(cy, cp)
          [] <<i, j>> = <<1, 0>> -> Mul(sy, cp)
          [] <<i, j>> = <<0, 1>> -> Sub(Mul(Mul(cy, sp), sr), Mul(sy, cr))
          [] <<i, j>> = <<1, 1>> -> Add(Mul(Mul(sy, sp), sr), Mul(cy, cr))
          [] <<i, j>> = <<0, 2>> -> Add(Mul(Mul(cy, sp), cr), Mul(sy, sr))
          [] <<i, j>> = <<1, 2>> -> Sub(Mul(Mul(sy, sp), cr), Mul(cy, sr))
          [] <<i, j>> = <<2, 2>> -> Mul(cp, cr)

(* C8: with thrust_cmd > 0 and acceleration_cmd = (0, 0) at level attitude
   roll_pitch_controller returns (0, 0) for every yaw and all gains; in
   general it returns (1/R[2][2]) * [[R[1][0], -R[0][0]], [R[1][1], -R[0][1]]]
   applied to (k_p_roll*(acc[0]/thrust - R[0][2]),
               k_p_pitch*(acc[1]/thrust - R[1][2])). *)
C8_RollPitch ==
    call.stage = "roll_pitch_controller" =>
        LET acc == Arg(1)
            att == Arg(2)
            thrust == Arg(3)
            bx == Mul(self.k_p_roll, Sub(Div(acc[1], thrust), REntry(att, 0, 2)))
            by == Mul(self.k_p_pitch, Sub(Div(acc[2], thrust), REntry(att, 1, 2)))
            k == Div(R(1), REntry(att, 2, 2))
        IN  /\ ret.status = "ok"
            /\ (Less(R(0), thrust) /\ Level(att) /\ acc = <<R(0), R(0)>>)
               => ret.value = <<R(0), R(0)>>
            /\ (thrust # R(0) /\ REntry(att, 2, 2) # R(0))
               => ret.value =
                    <<Mul(k, Sub(Mul(REntry(att, 1, 0), bx), Mul(REntry(att, 0, 0), by))),
                      Mul(k, Sub(Mul(REntry(att, 1, 1), bx), Mul(REntry(att, 0, 1), by)))>>

C8_Witness ==
    /\ call.stage = "roll_pitch_controller"
    /\ Less(R(0), Arg(3))
    /\ Arg(2) = <<"0", "0", "atan(3/4)">>
    /\ Arg(1) = <<R(0), R(0)>>
    /\ self.k_p_roll = R(3)
    /\ ret.value = <<R(0), R(0)>>

(* the lateral loop's output on one axis (0 north, 1 east) for given gains *)
LateralAxis(kp, kd, a) ==
    LET ff == IF Arg(5) = <<>> THEN <<R(0), R(0)>> ELSE Arg(5)
    IN  Add(Add(Mul(kp, Sub(At(Arg(1), a), At(Arg(3), a))),
                Mul(kd, Sub(At(Arg(2), a), At(Arg(4), a)))),
            At(ff, a))

OtherValues == {R(0), R(7), Q(-1, 3)}

(* C9: lateral_position_control returns, per axis a,
   Kp[a]*(pos_cmd[a] - pos[a]) + Kd[a]*(vel_cmd[a] - vel[a]) + ff[a] with
   x_k_p/x_k_d for north and y_k_p/y_k_d for east; with zero errors and zero
   or omitted feed-forward it returns (0, 0); one axis's output does not
   depend on the other axis's inputs or gains. *)
C9_LateralLaw ==
    call.stage = "lateral_position_control" =>
        LET ff == IF Arg(5) = <<>> THEN <<R(0), R(0)>> ELSE Arg(5)
        IN  /\ ret.status = "ok"
            /\ ret.value = <<LateralAxis(self.x_k_p, self.x_k_d, 0),
                             LateralAxis(self.y_k_p, self.y_k_d, 1)>>
            /\ (Arg(1) = Arg(3) /\ Arg(2) = Arg(4) /\ ff = <<R(0), R(0)>>)
               => ret.value = <<R(0), R(0)>>
            /\ \A v \in OtherValues :
                  /\ lateral_position_control(
                        [self EXCEPT !.y_k_p = v, !.y_k_d = v],
                        <<Arg(1)[1], v>>, <<Arg(2)[1], v>>, <<Arg(3)[1], v>>,
                        <<Arg(4)[1], v>>, <<ff[1], v>>).value[1] = ret.value[1]
                  /\ lateral_position_control(
                        [self EXCEPT !.x_k_p = v, !.x_k_d = v],
                        <<v, Arg(1)[2]>>, <<v, Arg(2)[2]>>, <<v, Arg(3)[2]>>,
                        <<v, Arg(4)[2]>>, <<v, ff[2]>>).value[2] = ret.value[2]
                  (* linear in each gain: scaling a gain by v scales its term by v *)
                  /\ Sub(lateral_position_control([self EXCEPT !.x_k_p = Mul(v, self.x_k_p)],
                             Arg(1), Arg(2), Arg(3), Arg(4), ff).value[1],
                         lateral_position_control([self EXCEPT !.x_k_p = R(0)],
                             Arg(1), Arg(2), Arg(3), Arg(4), ff).value[1])
                     = Mul(v, Mul(self.x_k_p, Sub(Arg(1)[1], Arg(3)[1])))
                  /\ Sub(lateral_position_control([self EXCEPT !.y_k_d = Mul(v, self.y_k_d)],
                             Arg(1), Arg(2), Arg(3), Arg(4), ff).value[2],
                         lateral_position_control([self EXCEPT !.y_k_d = R(0)],
                             Arg(1), Arg(2), Arg(3), Arg(4), ff).value[2])
                     = Mul(v, Mul(self.y_k_d, Sub(Arg(2)[2], Arg(4)[2])))

C9_Witness ==
    /\ call.stage = "lateral_position_control"
    /\ Arg(1) = Arg(3) /\ Arg(2) = Arg(4) /\ Arg(5) = <<>>
    /\ Arg(1) # <<R(0), R(0)>>
    /\ self.x_k_p = R(5)
    /\ ret.value = <<R(0), R(0)>>

(* C10: body_rate_control returns, per axis, Kp[axis]*(rate_cmd[axis] -
   rate[axis]) with Kp = (k_p_p, k_p_q, k_p_r); equal commanded and actual
   rates give the zero moment for all gains; the rates and the gain of one
   axis never change the moment of another axis. *)
C10_BodyRateLaw ==
    call.stage = "body_rate_control" =>
        /\ ret.status = "ok"
        /\ ret.value = <<Mul(self.k_p_p, Sub(Arg(1)[1], Arg(2)[1])),
                         Mul(self.k_p_q, Sub(Arg(1)[2], Arg(2)[2])),
                         Mul(self.k_p_r, Sub(Arg(1)[3], Arg(2)[3]))>>
        /\ Arg(1) = Arg(2) => ret.value = Zero3
        /\ \A v \in OtherValues :
              /\ \A a \in {2, 3} :
                    body_rate_control([self EXCEPT !.k_p_p = v],
                        [Arg(1) EXCEPT ![1] = v], [Arg(2) EXCEPT ![1] = Neg(v)]).value[a]
                    = ret.value[a]
              /\ \A a \in {1, 3} :
                    body_rate_control([self EXCEPT !.k_p_q = v],
                        [Arg(1) EXCEPT ![2] = v], [Arg(2) EXCEPT ![2] = Neg(v)]).value[a]
                    = ret.value[a]
              /\ \A a \in {1, 2} :
                    body_rate_control([self EXCEPT !.k_p_r = v],
                        [Arg(1) EXCEPT ![3] = v], [Arg(2) EXCEPT ![3] = Neg(v)]).value[a]
                    = ret.value[a]

C10_Witness ==
    /\ call.stage = "body_rate_control"
    /\ Arg(1) = Arg(2)
    /\ Arg(1) # Zero3
    /\ self.k_p_q = Q(1, 3)
    /\ ret.value = Zero3

====
